---- MODULE Spec2Model ----
(***************************************************************************)
(* Model of the todo HTTP service of backend/app.py: the todos table, the  *)
(* request-scoped ORM session, and the five REST handlers get_todos,       *)
(* get_todo, create_todo, update_todo and delete_todo.                     *)
(*                                                                         *)
(* A request is handled in one step (the whole handler, up to its commit   *)
(* or early return); a second step tears the request's session down,       *)
(* delivers the response and makes the server idle again.  req, resp and   *)
(* before record the request in hand, its response and the table as it was *)
(* when the request arrived.                                               *)
(***************************************************************************)
EXTENDS Integers, Sequences, FiniteSets, TLC

\* ---------------------------------------------------------------- bounds
MaxLen == 2      \* longest title a request carries
MaxId == 2       \* largest primary key the table hands out
MaxClock == 1    \* latest creation timestamp

\* ----------------------------------------------------------- JSON values
Chars == {" ", "a"}

IsSpace(c) == c = " "

Strings == UNION {[1..n -> Chars] : n \in 0..MaxLen}

Absent == [t |-> "absent"]
JNull == [t |-> "null"]
JBool(b) == [t |-> "bool", b |-> b]
JNum(n) == [t |-> "num", n |-> n]
JStr(s) == [t |-> "str", s |-> s]

IsBool(v) == v.t = "bool"
IsStr(v) == v.t = "str"

\* Python truthiness of a JSON value: `not v` is ~Truthy(v).
Truthy(v) ==
    CASE v.t = "null" -> FALSE
      [] v.t = "bool" -> v.b
      [] v.t = "num" -> v.n # 0
      [] v.t = "str" -> Len(v.s) > 0
      [] OTHER -> FALSE

\* str.strip(): drop leading and trailing whitespace.
RECURSIVE LStrip(_)
LStrip(s) == IF s # <<>> /\ IsSpace(Head(s)) THEN LStrip(Tail(s)) ELSE s

RECURSIVE RStrip(_)
RStrip(s) ==
    IF s # <<>> /\ IsSpace(s[Len(s)]) THEN RStrip(SubSeq(s, 1, Len(s) - 1)) ELSE s

\* Mutants of Strip: only the leading whitespace goes; nothing goes.
StripLeadingOnly(s) == LStrip(s)

NoStrip(s) == s

Strip(s) == RStrip(LStrip(s))

\* ------------------------------------------------------------- requests
StringValues == {JStr(s) : s \in Strings}
TitleValues == {Absent, JNull, JNum(5)} \cup StringValues
\* Descriptions: none, null, a number, empty, blank, and padded text.
DescriptionValues ==
    {Absent, JNull, JNum(5), JStr(<<>>), JStr(<<" ">>), JStr(<<" ", "a", " ">>)}
\* Completed: none, the booleans, the number 1 and a string.
CompletedValues == {Absent, JBool(TRUE), JBool(FALSE), JNum(1), JStr(<<"a">>)}

\* The result of request.get_json(): no parsable body, JSON null, a JSON
\* array, or a JSON object with any of the three keys.
ObjectBodies ==
    {[t |-> "obj", title |-> ti, description |-> de, completed |-> co] :
        ti \in TitleValues, de \in DescriptionValues, co \in CompletedValues}
Bodies == {[t |-> "missing"], [t |-> "null"], [t |-> "list"]} \cup ObjectBodies

Ids == 1..MaxId

VARIABLES
    todos,      \* the todos table: primary key -> committed row
    session,    \* the objects the request's ORM session holds
    clock,      \* the latest creation timestamp handed out
    pc,         \* "idle", or "responded" while a response is on its way out
    req,        \* the request in hand
    resp,       \* its response
    before,     \* the table as it was when the request arrived
    deleted     \* ids whose delete was answered 200 and not created again since

vars == <<todos, session, clock, pc, req, resp, before, deleted>>

\* ---------------------------------------------------------------- store
NoRows == [i \in {} |-> Absent]

Max(S) == CHOOSE x \in S : \A y \in S : y <= x

\* Primary key of the next inserted row.
NextId(table) == IF DOMAIN table = {} THEN 1 ELSE Max(DOMAIN table) + 1

\* The Boolean column's bind step: True/False and the integers equal to them
\* are accepted and read back as booleans, anything else is refused.
BooleanAccepts(v) == IsBool(v) \/ (v.t = "num" /\ v.n \in {0, 1})
BooleanBind(v) == IF IsBool(v) THEN v ELSE JBool(v.n = 1)

IsoFormat(ts) == [iso |-> ts]

ToDict(todo) ==
    [id |-> todo.id, title |-> JStr(todo.title),
     description |-> JStr(todo.description), completed |-> todo.completed,
     created_at |-> IsoFormat(todo.created_at)]

\* Todo.query.get(todo_id): the row, or None.
QueryGet(table, id) == IF id \in DOMAIN table THEN table[id] ELSE JNull

Put(table, todo) == [i \in DOMAIN table \cup {todo.id} |-> IF i = todo.id THEN todo ELSE table[i]]

\* Mutant of Remove: the row stays.
RemoveNothing(table, id) == table

Remove(table, id) == [i \in DOMAIN table \ {id} |-> table[i]]

\* db.session.remove() when the request's context is torn down.
ShutdownSession(s) == NoRows

\* ------------------------------------------------------------ envelopes
Error(msg) == [text |-> msg]
NotFound(id) == [text |-> "Todo with id {todo_id} not found", todo_id |-> id]

\* Mutant of Failure: the error envelope also carries a data key.
FailureWithData(code, err, table, objs) ==
    [status |-> code, body |-> [success |-> FALSE, error |-> err, data |-> JNull],
     table |-> table, session |-> objs, commit |-> FALSE]

\* What a handler run leaves behind: the response, the committed table, the
\* objects the session still holds, and whether db.session.commit() was called.
Failure(code, err, table, objs) ==
    [status |-> code, body |-> [success |-> FALSE, error |-> err],
     table |-> table, session |-> objs, commit |-> FALSE]

\* `not data` on the parsed body.
BodyTruthy(data) ==
    CASE data.t = "null" -> FALSE
      [] data.t = "list" -> TRUE
      [] data.t = "obj" ->
            \/ data.title # Absent
            \/ data.description # Absent
            \/ data.completed # Absent
      [] OTHER -> FALSE

\* data.get(key): None when the key is absent.
DictGet(v) == IF v = Absent THEN JNull ELSE v

\* ------------------------------------------------------------- handlers
GetTodosRun(table, order) ==
    [status |-> 200,
     body |-> [success |-> TRUE,
               data |-> [k \in 1..Len(order) |-> ToDict(table[order[k]])],
               count |-> Len(order)],
     table |-> table, session |-> table, commit |-> FALSE]

\* Mutant of OrderByCreatedAtDesc: oldest first.
OrderByCreatedAtAsc(table, order) ==
    /\ Len(order) = Cardinality(DOMAIN table)
    /\ {order[k] : k \in 1..Len(order)} = DOMAIN table
    /\ \A k \in 1..(Len(order) - 1) :
          table[order[k]].created_at <= table[order[k + 1]].created_at

\* order_by(Todo.created_at.desc()).all(): every row once, newest first; the
\* order among equal timestamps is the store's choice.
OrderByCreatedAtDesc(table, order) ==
    /\ Len(order) = Cardinality(DOMAIN table)
    /\ {order[k] : k \in 1..Len(order)} = DOMAIN table
    /\ \A k \in 1..(Len(order) - 1) :
          table[order[k]].created_at >= table[order[k + 1]].created_at

GetTodoRun(table, id) ==
    LET todo == QueryGet(table, id) IN
    IF todo = JNull
    THEN Failure(404, NotFound(id), table, NoRows)
    ELSE [status |-> 200, body |-> [success |-> TRUE, data |-> ToDict(todo)],
          table |-> table, session |-> Put(NoRows, todo), commit |-> FALSE]

CreateTodoRun(table, data, now) ==
    IF data.t = "missing"
    THEN Failure(400, Error("Invalid request data"), table, NoRows)
    ELSE IF ~BodyTruthy(data)
    THEN Failure(400, Error("No data provided"), table, NoRows)
    ELSE IF data.t # "obj"
    THEN Failure(400, Error("Invalid request data"), table, NoRows)
    ELSE IF ~Truthy(DictGet(data.title))
    THEN Failure(400, Error("Title is required and cannot be empty"), table, NoRows)
    ELSE IF ~IsStr(data.title)
    THEN Failure(400, Error("Invalid request data"), table, NoRows)
    ELSE IF Strip(data.title.s) = <<>>
    THEN Failure(400, Error("Title is required and cannot be empty"), table, NoRows)
    ELSE IF data.description # Absent /\ ~IsStr(data.description)
    THEN Failure(400, Error("Invalid request data"), table, NoRows)
    ELSE
        LET completed == IF data.completed = Absent THEN JBool(FALSE) ELSE data.completed
            description == IF data.description = Absent THEN <<>> ELSE Strip(data.description.s)
        IN
        IF ~BooleanAccepts(completed)
        THEN [status |-> 500,
              body |-> [success |-> FALSE, error |-> Error("Failed to create todo")],
              table |-> table, session |-> NoRows, commit |-> TRUE]
        ELSE
            LET todo == [id |-> NextId(table), title |-> Strip(data.title.s),
                         description |-> description,
                         completed |-> BooleanBind(completed), created_at |-> now]
            IN [status |-> 201,
                body |-> [success |-> TRUE, data |-> ToDict(todo),
                          message |-> "Todo created successfully"],
                table |-> Put(table, todo), session |-> Put(NoRows, todo),
                commit |-> TRUE]

\* `key in data`; the array body modelled holds none of the three key names.
HasKey(data, key) == data.t = "obj" /\ data[key] # Absent

\* Mutant of IsInstanceBool: whatever the Boolean column takes passes.
IsInstanceBoolOrInt(v) == BooleanAccepts(v)

\* isinstance(v, bool)
IsInstanceBool(v) == IsBool(v)

\* One field of update_todo: the todo object as the step leaves it, and the
\* error the step returns with, if any.
Applied(todo) == [todo |-> todo, err |-> Absent]
Rejected(todo, msg) == [todo |-> todo, err |-> Error(msg)]

UpdateTitle(todo, data) ==
    IF ~HasKey(data, "title") THEN Applied(todo)
    ELSE IF ~Truthy(data.title) THEN Rejected(todo, "Title cannot be empty")
    ELSE IF ~IsStr(data.title) THEN Rejected(todo, "Invalid request data")
    ELSE IF Strip(data.title.s) = <<>> THEN Rejected(todo, "Title cannot be empty")
    ELSE Applied([todo EXCEPT !.title = Strip(data.title.s)])

\* Mutant of UpdateDescription: an absent description is written as ''.
UpdateDescriptionDefaulted(todo, data) ==
    IF ~HasKey(data, "description") \/ ~Truthy(data.description)
    THEN Applied([todo EXCEPT !.description = <<>>])
    ELSE IF ~IsStr(data.description) THEN Rejected(todo, "Invalid request data")
    ELSE Applied([todo EXCEPT !.description = Strip(data.description.s)])

UpdateDescription(todo, data) ==
    IF ~HasKey(data, "description") THEN Applied(todo)
    ELSE IF ~Truthy(data.description) THEN Applied([todo EXCEPT !.description = <<>>])
    ELSE IF ~IsStr(data.description) THEN Rejected(todo, "Invalid request data")
    ELSE Applied([todo EXCEPT !.description = Strip(data.description.s)])

UpdateCompleted(todo, data) ==
    IF ~HasKey(data, "completed") THEN Applied(todo)
    ELSE IF ~IsInstanceBool(data.completed)
    THEN Rejected(todo, "Completed must be a boolean value")
    ELSE Applied([todo EXCEPT !.completed = data.completed])

\* The three fields in the order update_todo takes them; a rejected step
\* returns at once, with the assignments made so far left on the object.
UpdateFields(todo, data) ==
    LET t == UpdateTitle(todo, data) IN
    IF t.err # Absent THEN t
    ELSE LET d == UpdateDescription(t.todo, data) IN
         IF d.err # Absent THEN d
         ELSE UpdateCompleted(d.todo, data)

\* Mutant of UpdateRejected: the assignments made so far are committed.
UpdateRejectedCommitted(table, todo, err) ==
    Failure(400, err, Put(table, todo), Put(NoRows, todo))

\* An early 400 return of update_todo: nothing is committed, the session
\* keeps the object as assigned so far.
UpdateRejected(table, todo, err) == Failure(400, err, table, Put(NoRows, todo))

\* Mutant of UpdateTodoRun: the body is looked at before the lookup.
UpdateTodoRunBodyFirst(table, id, data) ==
    LET todo == QueryGet(table, id) IN
    IF data.t = "missing"
    THEN Failure(400, Error("Invalid request data"), table, NoRows)
    ELSE IF ~BodyTruthy(data)
    THEN Failure(400, Error("No data provided"), table, NoRows)
    ELSE IF todo = JNull
    THEN Failure(404, NotFound(id), table, NoRows)
    ELSE
        LET u == UpdateFields(todo, data) IN
        IF u.err # Absent
        THEN UpdateRejected(table, u.todo, u.err)
        ELSE [status |-> 200,
              body |-> [success |-> TRUE, data |-> ToDict(u.todo),
                        message |-> "Todo updated successfully"],
              table |-> Put(table, u.todo), session |-> Put(NoRows, u.todo),
              commit |-> TRUE]

UpdateTodoRun(table, id, data) ==
    LET todo == QueryGet(table, id) IN
    IF todo = JNull
    THEN Failure(404, NotFound(id), table, NoRows)
    ELSE IF data.t = "missing"
    THEN UpdateRejected(table, todo, Error("Invalid request data"))
    ELSE IF ~BodyTruthy(data)
    THEN UpdateRejected(table, todo, Error("No data provided"))
    ELSE
        LET u == UpdateFields(todo, data) IN
        IF u.err # Absent
        THEN UpdateRejected(table, u.todo, u.err)
        ELSE [status |-> 200,
              body |-> [success |-> TRUE, data |-> ToDict(u.todo),
                        message |-> "Todo updated successfully"],
              table |-> Put(table, u.todo), session |-> Put(NoRows, u.todo),
              commit |-> TRUE]

DeleteTodoRun(table, id) ==
    LET todo == QueryGet(table, id) IN
    IF todo = JNull
    THEN Failure(404, NotFound(id), table, NoRows)
    ELSE [status |-> 200,
          body |-> [success |-> TRUE, message |-> "Todo deleted successfully"],
          table |-> Remove(table, id), session |-> NoRows, commit |-> TRUE]

\* ---------------------------------------------------------- store errors
\* Mutant of Rollback: what the failed commit had flushed stays.
RollbackKeepsFlushed(table, flushed) == flushed

\* db.session.rollback(): the transaction's writes are dropped.
Rollback(table, flushed) == table

\* A handler whose db.session.commit() raised SQLAlchemyError: the except
\* branch rolls back and answers 500.  run is the handler's run had the
\* commit gone through; the session's objects fall back to their rows.
CommitFailed(table, run, msg) ==
    LET rolled == Rollback(table, run.table) IN
    [status |-> 500,
     body |-> [success |-> FALSE, error |-> Error(msg)],
     table |-> rolled,
     session |-> [i \in DOMAIN run.session \cap DOMAIN rolled |-> rolled[i]],
     commit |-> TRUE]

\* -------------------------------------------------------------- actions
NoRequest == [op |-> "none"]
NoResponse == [status |-> 0]

Init ==
    /\ todos = NoRows
    /\ session = NoRows
    /\ clock = 0
    /\ pc = "idle"
    /\ req = NoRequest
    /\ resp = NoResponse
    /\ before = NoRows
    /\ deleted = {}

\* A handler ran: its response is recorded, its commit (if any) is in the
\* table, and the session holds what the handler left in it.
Handled(request, run) ==
    /\ pc' = "responded"
    /\ req' = request
    /\ resp' = [status |-> run.status, body |-> run.body, commit |-> run.commit]
    /\ todos' = run.table
    /\ session' = run.session
    /\ before' = todos
    /\ UNCHANGED deleted

GetTodos ==
    /\ pc = "idle"
    /\ \E order \in UNION {[1..n -> Ids] : n \in 0..MaxId} :
          /\ OrderByCreatedAtDesc(todos, order)
          /\ Handled([op |-> "list"], GetTodosRun(todos, order))
    /\ UNCHANGED clock

GetTodo(id) ==
    /\ pc = "idle"
    /\ Handled([op |-> "get", todo_id |-> id], GetTodoRun(todos, id))
    /\ UNCHANGED clock

CreateTodo(data, now) ==
    /\ pc = "idle"
    /\ now >= clock
    /\ now <= MaxClock
    /\ LET run == CreateTodoRun(todos, data, now) IN
          /\ run.status = 201 => NextId(todos) <= MaxId
          /\ Handled([op |-> "create", data |-> data], run)
          /\ clock' = IF run.status = 201 THEN now ELSE clock

UpdateTodo(id, data) ==
    /\ pc = "idle"
    /\ Handled([op |-> "update", todo_id |-> id, data |-> data],
               UpdateTodoRun(todos, id, data))
    /\ UNCHANGED clock

DeleteTodo(id) ==
    /\ pc = "idle"
    /\ Handled([op |-> "delete", todo_id |-> id], DeleteTodoRun(todos, id))
    /\ UNCHANGED clock

\* The request's context is popped (the session is removed) and the response
\* goes out; the server waits for the next request.
Respond ==
    /\ pc = "responded"
    /\ pc' = "idle"
    /\ session' = ShutdownSession(session)
    /\ req' = NoRequest
    /\ resp' = NoResponse
    /\ before' = NoRows
    /\ deleted' =
          CASE req.op = "delete" /\ resp.status = 200 -> deleted \cup {req.todo_id}
            [] req.op = "create" /\ resp.status = 201 -> deleted \ {resp.body.data.id}
            [] OTHER -> deleted
    /\ UNCHANGED <<todos, clock>>

\* One request at a time: the next one is taken once the server is idle.
ServeGetTodo == pc = "idle" /\ \E id \in Ids : GetTodo(id)

ServeCreateTodo ==
    pc = "idle" /\ \E data \in Bodies, now \in 0..MaxClock : CreateTodo(data, now)

ServeUpdateTodo == pc = "idle" /\ \E id \in Ids, data \in Bodies : UpdateTodo(id, data)

ServeDeleteTodo == pc = "idle" /\ \E id \in Ids : DeleteTodo(id)

Next ==
    \/ GetTodos
    \/ ServeGetTodo
    \/ ServeCreateTodo
    \/ ServeUpdateTodo
    \/ ServeDeleteTodo
    \/ Respond

Spec == Init /\ [][Next]_vars

\* ------------------------------------------- the service on a failing store
\* The same requests, with the store free to fail at the commit.
CreateTodoStoreError(data, now) ==
    /\ pc = "idle"
    /\ now >= clock
    /\ now <= MaxClock
    /\ LET run == CreateTodoRun(todos, data, now) IN
          /\ run.status = 201
          /\ NextId(todos) <= MaxId
          /\ Handled([op |-> "create", data |-> data],
                     CommitFailed(todos, run, "Failed to create todo"))
    /\ UNCHANGED clock

UpdateTodoStoreError(id, data) ==
    /\ pc = "idle"
    /\ LET run == UpdateTodoRun(todos, id, data) IN
          /\ run.status = 200
          /\ Handled([op |-> "update", todo_id |-> id, data |-> data],
                     CommitFailed(todos, run, "Failed to update todo"))
    /\ UNCHANGED clock

DeleteTodoStoreError(id) ==
    /\ pc = "idle"
    /\ LET run == DeleteTodoRun(todos, id) IN
          /\ run.status = 200
          /\ Handled([op |-> "delete", todo_id |-> id],
                     CommitFailed(todos, run, "Failed to delete todo"))
    /\ UNCHANGED clock

ServeCreateTodoStoreError ==
    pc = "idle" /\ \E data \in Bodies, now \in 0..MaxClock : CreateTodoStoreError(data, now)

ServeUpdateTodoStoreError ==
    pc = "idle" /\ \E id \in Ids, data \in Bodies : UpdateTodoStoreError(id, data)

ServeDeleteTodoStoreError == pc = "idle" /\ \E id \in Ids : DeleteTodoStoreError(id)

NextStoreError ==
    \/ Next
    \/ ServeCreateTodoStoreError
    \/ ServeUpdateTodoStoreError
    \/ ServeDeleteTodoStoreError

SpecStoreError == Init /\ [][NextStoreError]_vars

\* --------------------------------------------- requests handled concurrently
\* Each worker thread has its own session and handles one request at a time
\* in two steps: the part of the handler before db.session.commit(), which
\* reads the table, and the commit, which writes it.  Here pc, req, resp and
\* session hold one entry per worker.  A round is over when every worker has
\* answered; before is the table at the start of the round.
NumWorkers == 2

Workers == 1..NumWorkers

TitleOnly(s) ==
    [t |-> "obj", title |-> JStr(s), description |-> Absent, completed |-> Absent]

CompletedOnly(b) ==
    [t |-> "obj", title |-> Absent, description |-> Absent, completed |-> JBool(b)]

RaceBodies == {TitleOnly(<<"a">>), TitleOnly(<<"a", "a">>), CompletedOnly(TRUE)}

RaceRequests ==
    {[op |-> "create", data |-> TitleOnly(<<"a">>)]}
    \cup {[op |-> "update", todo_id |-> id, data |-> data] : id \in Ids, data \in RaceBodies}
    \cup {[op |-> "delete", todo_id |-> id] : id \in Ids}

InitRace ==
    /\ todos = NoRows
    /\ session = [w \in Workers |-> NoRows]
    /\ clock = 0
    /\ pc = [w \in Workers |-> "idle"]
    /\ req = [w \in Workers |-> NoRequest]
    /\ resp = [w \in Workers |-> NoResponse]
    /\ before = NoRows
    /\ deleted = {}

Answer(run) == [status |-> run.status, body |-> run.body, commit |-> run.commit]

\* Creates that have passed validation and not yet inserted.
PendingCreates == {w \in Workers : pc[w] = "loaded" /\ req[w].op = "create"}

\* The handler up to its commit.  update_todo and delete_todo look the id up
\* and answer 404 at once when it is not there; create_todo reads nothing.
Lookup(w, request) ==
    /\ pc[w] = "idle"
    /\ req' = [req EXCEPT ![w] = request]
    /\ IF request.op = "create"
       THEN /\ NextId(todos) + Cardinality(PendingCreates) <= MaxId
            /\ pc' = [pc EXCEPT ![w] = "loaded"]
            /\ UNCHANGED <<resp, session>>
       ELSE IF request.todo_id \in DOMAIN todos
       THEN /\ pc' = [pc EXCEPT ![w] = "loaded"]
            /\ session' = [session EXCEPT ![w] = Put(NoRows, todos[request.todo_id])]
            /\ UNCHANGED resp
       ELSE /\ pc' = [pc EXCEPT ![w] = "responded"]
            /\ resp' = [resp EXCEPT ![w] = Answer(GetTodoRun(todos, request.todo_id))]
            /\ UNCHANGED session
    /\ UNCHANGED <<todos, clock, before, deleted>>

\* The UPDATE a flush emits: the columns the handler changed on its object,
\* written to the row as it is now.
Written(row, loaded, todo) ==
    [key \in DOMAIN row |-> IF todo[key] # loaded[key] THEN todo[key] ELSE row[key]]

\* update_todo from its field assignments on, on the object loaded earlier.
\* A changed object is flushed with an UPDATE, which raises StaleDataError
\* when the row is gone; the answer is built from the object refreshed after
\* the commit, which raises ObjectDeletedError when the row is gone.
UpdateCommitRun(table, loaded, data) ==
    IF data.t = "missing"
    THEN UpdateRejected(table, loaded, Error("Invalid request data"))
    ELSE IF ~BodyTruthy(data)
    THEN UpdateRejected(table, loaded, Error("No data provided"))
    ELSE
        LET u == UpdateFields(loaded, data) IN
        IF u.err # Absent
        THEN UpdateRejected(table, u.todo, u.err)
        ELSE IF loaded.id \notin DOMAIN table
        THEN [status |-> 500,
              body |-> [success |-> FALSE, error |-> Error("Failed to update todo")],
              table |-> Rollback(table, table), session |-> NoRows, commit |-> TRUE]
        ELSE
            LET row == Written(table[loaded.id], loaded, u.todo) IN
            [status |-> 200,
             body |-> [success |-> TRUE, data |-> ToDict(row),
                       message |-> "Todo updated successfully"],
             table |-> Put(table, row), session |-> Put(NoRows, row),
             commit |-> TRUE]

\* delete_todo from db.session.delete on: the DELETE of a row that is gone
\* matches nothing, which the flush only warns about.
DeleteCommitRun(table, loaded) ==
    [status |-> 200,
     body |-> [success |-> TRUE, message |-> "Todo deleted successfully"],
     table |-> Remove(table, loaded.id), session |-> NoRows, commit |-> TRUE]

Committed(w, run) ==
    /\ pc' = [pc EXCEPT ![w] = "responded"]
    /\ resp' = [resp EXCEPT ![w] = Answer(run)]
    /\ session' = [session EXCEPT ![w] = run.session]
    /\ todos' = run.table
    /\ UNCHANGED <<req, before, deleted>>

CommitCreate(w, now) ==
    /\ pc[w] = "loaded"
    /\ req[w].op = "create"
    /\ now >= clock
    /\ now <= MaxClock
    /\ LET run == CreateTodoRun(todos, req[w].data, now) IN
          /\ Committed(w, run)
          /\ clock' = IF run.status = 201 THEN now ELSE clock

CommitUpdate(w) ==
    /\ pc[w] = "loaded"
    /\ req[w].op = "update"
    /\ Committed(w, UpdateCommitRun(todos, session[w][req[w].todo_id], req[w].data))
    /\ UNCHANGED clock

CommitDelete(w) ==
    /\ pc[w] = "loaded"
    /\ req[w].op = "delete"
    /\ Committed(w, DeleteCommitRun(todos, session[w][req[w].todo_id]))
    /\ UNCHANGED clock

\* Every worker has answered: the sessions are removed, the responses go out.
RoundEnd ==
    /\ \A w \in Workers : pc[w] = "responded"
    /\ pc' = [w \in Workers |-> "idle"]
    /\ req' = [w \in Workers |-> NoRequest]
    /\ resp' = [w \in Workers |-> NoResponse]
    /\ session' = [w \in Workers |-> ShutdownSession(session[w])]
    /\ before' = todos
    /\ UNCHANGED <<todos, clock, deleted>>

NextRace ==
    \/ \E w \in Workers, request \in RaceRequests : Lookup(w, request)
    \/ \E w \in Workers, now \in 0..MaxClock : CommitCreate(w, now)
    \/ \E w \in Workers : CommitUpdate(w)
    \/ \E w \in Workers : CommitDelete(w)
    \/ RoundEnd

SpecRace == InitRace /\ [][NextRace]_vars

\* ======================================================================
\* Properties
\* ======================================================================
Responded(op) == pc = "responded" /\ req.op = op

Trimmed(s) == Len(s) > 0 /\ ~IsSpace(s[1]) /\ ~IsSpace(s[Len(s)])

Blank(s) == \A k \in 1..Len(s) : IsSpace(s[k])

\* t is s without its leading and trailing whitespace.
IsTrimOf(t, s) ==
    /\ t = <<>> \/ Trimmed(t)
    /\ \E i \in 0..Len(s) :
          /\ i + Len(t) <= Len(s)
          /\ SubSeq(s, i + 1, i + Len(t)) = t
          /\ \A k \in (1..i) \cup ((i + Len(t) + 1)..Len(s)) : IsSpace(s[k])

\* C1: every stored title is a non-empty string without leading or trailing
\* whitespace, and what create and update store is the sent title, trimmed.
TitleStoredTrimmed ==
    /\ \A i \in DOMAIN todos : Trimmed(todos[i].title)
    /\ Responded("create") /\ resp.status = 201 =>
          /\ IsStr(req.data.title)
          /\ IsTrimOf(todos[resp.body.data.id].title, req.data.title.s)
    /\ Responded("update") /\ resp.status = 200 /\ HasKey(req.data, "title") =>
          /\ IsStr(req.data.title)
          /\ IsTrimOf(todos[req.todo_id].title, req.data.title.s)

\* An update that stores a title sent with whitespace around it.
TitleStoredTrimmedWitness ==
    /\ Responded("update") /\ resp.status = 200 /\ HasKey(req.data, "title")
    /\ todos[req.todo_id].title # req.data.title.s
    /\ todos[req.todo_id].title # before[req.todo_id].title

Fields == {"title", "description", "completed"}

\* C2: a create or update answered 400 called no commit and left every stored
\* row as it was, and whatever the handler had assigned on the session's
\* objects is gone before the next request is taken.
NoPartialWrites ==
    /\ pc = "responded" /\ req.op \in {"create", "update"} /\ resp.status = 400 =>
          /\ ~resp.commit
          /\ todos = before
    /\ pc = "idle" => session = NoRows

\* An update rejected for its completed value after its title had already been
\* assigned on the session's object.
NoPartialWritesWitness ==
    /\ Responded("update") /\ resp.status = 400
    /\ HasKey(req.data, "title") /\ HasKey(req.data, "completed")
    /\ ~IsBool(req.data.completed)
    /\ req.todo_id \in DOMAIN session
    /\ session[req.todo_id].title # before[req.todo_id].title

\* C3: an update of an existing todo whose body carries a non-boolean
\* completed is answered 400 and the stored completed is what it was.
CompletedRejectedNotCoerced ==
    /\ Responded("update")
    /\ req.todo_id \in DOMAIN before
    /\ HasKey(req.data, "completed")
    /\ ~IsBool(req.data.completed)
    => /\ resp.status = 400
       /\ req.todo_id \in DOMAIN todos
       /\ todos[req.todo_id].completed = before[req.todo_id].completed

CompletedRejectedNotCoercedWitness ==
    /\ Responded("update") /\ resp.status = 400
    /\ req.data.t = "obj"
    /\ req.data.title = Absent /\ req.data.description = Absent
    /\ req.data.completed = JStr(<<"a">>)
    /\ before[req.todo_id].completed = JBool(FALSE)

\* C4: an update never adds or removes a row and never changes an id, a
\* created_at or another row; answered 200, it leaves every field that is
\* absent from the body as it was.
UpdateFrame ==
    Responded("update") =>
        /\ DOMAIN todos = DOMAIN before
        /\ \A i \in DOMAIN before :
              /\ todos[i].id = before[i].id
              /\ todos[i].created_at = before[i].created_at
              /\ i # req.todo_id => todos[i] = before[i]
        /\ resp.status = 200 =>
              \A key \in Fields :
                  ~HasKey(req.data, key) => todos[req.todo_id][key] = before[req.todo_id][key]

UpdateFrameWitness ==
    /\ Responded("update") /\ resp.status = 200
    /\ HasKey(req.data, "title")
    /\ ~HasKey(req.data, "description") /\ ~HasKey(req.data, "completed")
    /\ todos[req.todo_id].title # before[req.todo_id].title
    /\ before[req.todo_id].description # <<>>
    /\ before[req.todo_id].completed = JBool(TRUE)
    /\ Cardinality(DOMAIN before) = 2

\* C5: a delete of a stored id is answered 200 and removes it; from then on,
\* until a create hands the id out again, every get, update and delete of it
\* is answered 404, no list shows it, and it is not in the table.
DeleteTwice ==
    /\ Responded("delete") /\ req.todo_id \in DOMAIN before =>
          resp.status = 200 /\ req.todo_id \notin DOMAIN todos
    /\ pc = "responded" /\ req.op \in {"get", "update", "delete"}
          /\ req.todo_id \in deleted => resp.status = 404
    /\ Responded("list") =>
          \A k \in DOMAIN resp.body.data : resp.body.data[k].id \notin deleted
    /\ ~Responded("create") => deleted \cap DOMAIN todos = {}

\* The second delete of an id.
DeleteTwiceWitness ==
    /\ Responded("delete")
    /\ req.todo_id \in deleted
    /\ resp.status = 404

\* C6: list answers 200 with exactly the stored todos, each once, newest
\* first, and count is the number of records and of stored todos.
ListAll ==
    Responded("list") =>
        LET data == resp.body.data IN
        /\ resp.status = 200 /\ resp.body.success
        /\ todos = before
        /\ resp.body.count = Len(data)
        /\ resp.body.count = Cardinality(DOMAIN todos)
        /\ {data[k].id : k \in 1..Len(data)} = DOMAIN todos
        /\ \A k \in 1..Len(data) : data[k] = ToDict(todos[data[k].id])
        /\ \A k \in 1..(Len(data) - 1) :
              data[k].created_at.iso >= data[k + 1].created_at.iso

\* A list of two todos created at different times.
ListAllWitness ==
    /\ Responded("list")
    /\ resp.body.count = 2
    /\ resp.body.data[1].created_at # resp.body.data[2].created_at

\* get_todo of id on the table as it is now.
Fetch(id) == GetTodoRun(todos, id)

\* The completed a create body asks for: the sent value, false when none.
SentCompleted(data) == IF data.completed = Absent THEN JBool(FALSE) ELSE data.completed

\* C7: round trip.  After a create answered 201, get of the returned id
\* answers 200 with the sent title and description, trimmed ('' when no
\* description was sent), and the sent completed (false when none was sent);
\* after an update of one field, get shows only that field changed; after a
\* delete, get answers 404.
RoundTrip ==
    /\ Responded("create") /\ resp.status = 201 =>
          LET got == Fetch(resp.body.data.id) IN
          /\ got.status = 200
          /\ IsTrimOf(got.body.data.title.s, req.data.title.s)
          /\ IF req.data.description = Absent
             THEN got.body.data.description = JStr(<<>>)
             ELSE IsTrimOf(got.body.data.description.s, req.data.description.s)
          /\ got.body.data.completed = SentCompleted(req.data)
    /\ Responded("update") /\ resp.status = 200 =>
          LET got == Fetch(req.todo_id) IN
          /\ got.status = 200
          /\ \A key \in Fields :
                ~HasKey(req.data, key) =>
                    got.body.data[key] = ToDict(before[req.todo_id])[key]
          /\ got.body.data.id = before[req.todo_id].id
          /\ got.body.data.created_at = IsoFormat(before[req.todo_id].created_at)
    /\ Responded("delete") /\ resp.status = 200 => Fetch(req.todo_id).status = 404

\* C8 as stated: every response carries exactly one of data and error, and
\* error goes with success false.
ExactlyOneOfDataError ==
    pc = "responded" =>
        /\ ("data" \in DOMAIN resp.body) # ("error" \in DOMAIN resp.body)
        /\ "error" \in DOMAIN resp.body => ~resp.body.success

\* C8, amended: no response carries both data and error; error is there
\* exactly when success is false; and the one response that carries neither
\* is the 200 of a delete.
DataErrorEnvelope ==
    pc = "responded" =>
        /\ ~("data" \in DOMAIN resp.body /\ "error" \in DOMAIN resp.body)
        /\ "error" \in DOMAIN resp.body <=> ~resp.body.success
        /\ ("data" \notin DOMAIN resp.body /\ "error" \notin DOMAIN resp.body)
              <=> (req.op = "delete" /\ resp.status = 200)

DataErrorEnvelopeWitness ==
    /\ Responded("delete") /\ resp.status = 200
    /\ resp.body.success
    /\ DOMAIN resp.body = {"success", "message"}

\* A create body the service must refuse: missing, null, not an object,
\* without a title, or with a title that is empty once trimmed.
CreateBodyRefused(data) ==
    \/ data.t \in {"missing", "null", "list"}
    \/ /\ data.t = "obj"
       /\ \/ data.title = Absent
          \/ IsStr(data.title) /\ Blank(data.title.s)

\* C9: such a create is answered 400 with success false and adds no todo.
CreateRejected ==
    Responded("create") /\ CreateBodyRefused(req.data) =>
        /\ resp.status = 400
        /\ ~resp.body.success
        /\ todos = before

\* A whitespace-only title refused while the table holds a todo.
CreateRejectedWitness ==
    /\ Responded("create") /\ resp.status = 400
    /\ req.data.t = "obj"
    /\ req.data.title = JStr(<<" ">>)
    /\ DOMAIN todos # {}

\* C10: completed is a boolean in every stored todo, and no create or update
\* whose body carries a non-boolean completed stores anything.
CompletedGenuineBoolean ==
    /\ \A i \in DOMAIN todos : IsBool(todos[i].completed)
    /\ pc = "responded" /\ req.op \in {"create", "update"}
          /\ HasKey(req.data, "completed") /\ ~IsBool(req.data.completed)
       => todos = before

\* C13: an update of an id that is not stored is answered 404 whatever its
\* body, and leaves the table as it was; an update is answered 400 only for
\* a stored id.
UpdateLooksUpFirst ==
    Responded("update") =>
        /\ req.todo_id \notin DOMAIN before =>
              /\ resp.status = 404
              /\ ~resp.body.success
              /\ todos = before
        /\ resp.status = 400 => req.todo_id \in DOMAIN before

\* A body that a stored id would be refused for, sent to an id that is not
\* stored while another one is.
UpdateLooksUpFirstWitness ==
    /\ Responded("update") /\ resp.status = 404
    /\ req.todo_id \notin DOMAIN before
    /\ DOMAIN before # {}
    /\ req.data.t \in {"missing", "null"}
          \/ (req.data.t = "obj" /\ req.data.completed = JStr(<<"a">>))

\* C11: a create, update or delete whose commit failed is answered 500 with
\* success false and leaves the table exactly as the request found it; the
\* session's objects are back at their rows, and nothing of the failed
\* request is left for the next one.
AtomicOnStoreError ==
    /\ pc = "responded" /\ req.op \in {"create", "update", "delete"}
          /\ resp.status = 500 =>
          /\ ~resp.body.success
          /\ "error" \in DOMAIN resp.body
          /\ todos = before
          /\ \A i \in DOMAIN session : i \in DOMAIN todos /\ session[i] = todos[i]
    /\ pc = "idle" => session = NoRows

\* An update that would have changed a title, failing at the commit while
\* the table holds another todo as well.
AtomicOnStoreErrorWitness ==
    /\ Responded("update") /\ resp.status = 500
    /\ HasKey(req.data, "title")
    /\ IsStr(req.data.title)
    /\ ~IsTrimOf(todos[req.todo_id].title, req.data.title.s)
    /\ Cardinality(DOMAIN todos) = 2

\* The handler run that answers request when it runs alone on table; a
\* create is given the timestamp its answer shows.
SerialRun(table, request, answer) ==
    CASE request.op = "create" ->
            CreateTodoRun(table, request.data,
                IF answer.status = 201 THEN answer.body.data.created_at.iso ELSE 0)
      [] request.op = "update" -> UpdateTodoRun(table, request.todo_id, request.data)
      [] request.op = "delete" -> DeleteTodoRun(table, request.todo_id)

\* Running the round's requests one after another in this order, from the
\* k-th on and starting on table, gives each worker the answer it got and
\* ends with the table as it is.
RECURSIVE SerialMatches(_, _, _)
SerialMatches(order, k, table) ==
    IF k > Len(order) THEN table = todos
    ELSE LET w == order[k]
             run == SerialRun(table, req[w], resp[w])
         IN /\ run.status = resp[w].status
            /\ run.body = resp[w].body
            /\ SerialMatches(order, k + 1, run.table)

WorkerOrders == {o \in [1..NumWorkers -> Workers] : \A i, j \in 1..NumWorkers : o[i] = o[j] => i = j}

RoundOver == \A w \in Workers : pc[w] = "responded"

NoCreateInRound == \A w \in Workers : req[w].op # "create"

\* Some serial order of the round's requests explains its answers and table.
RoundSerializable == RoundOver => \E o \in WorkerOrders : SerialMatches(o, 1, before)

\* Two deletes of one id in a round are not both answered 200.
DeletesNotBothOk ==
    RoundOver /\ NoCreateInRound =>
        \A v, w \in Workers :
            /\ v # w
            /\ req[v].op = "delete" /\ req[w].op = "delete"
            /\ req[v].todo_id = req[w].todo_id
            => ~(resp[v].status = 200 /\ resp[w].status = 200)

\* A delete answered 200 in a round with an update of the same id leaves no
\* such record.
DeleteWinsOverUpdate ==
    RoundOver /\ NoCreateInRound =>
        \A v, w \in Workers :
            /\ req[v].op = "delete" /\ resp[v].status = 200
            /\ req[w].op = "update"
            /\ req[v].todo_id = req[w].todo_id
            => req[v].todo_id \notin DOMAIN todos

\* C12: concurrent creates, updates and deletes are serialized: the answers
\* and the table of a round are those of its requests run one after another
\* in some order; two concurrent deletes of one id are not both answered
\* 200; and an update concurrent with a delete answered 200 leaves no record.
SerializedWriters ==
    /\ RoundSerializable
    /\ DeletesNotBothOk
    /\ DeleteWinsOverUpdate

====
